---------------------------- MODULE Spec2Model ----------------------------
(***************************************************************************)
(* A model of rain-oracle-server: the POST /context pipeline of            *)
(* src/src/lib.rs (decode, index checks, price direction, price fetch,     *)
(* clock read, context building, signing), the context builder of          *)
(* src/src/oracle.rs and the signer of src/src/sign.rs.                    *)
(*                                                                         *)
(* Byte strings are sequences of integers 0..255, big-endian, at the       *)
(* widths of the program (u64 = 8 bytes, uint256 / bytes32 = 32 bytes).    *)
(* Decimal strings are sequences of one-character strings.                 *)
(***************************************************************************)
EXTENDS Integers, Sequences, FiniteSets, TLC

VARIABLES
    state,            \* the shared AppState (lib.rs:82-87), built at startup
    overflow_checks,  \* build profile: does u64 `+` panic on overflow (debug) or wrap (release)
    req,              \* the request being handled: position in the handler and its locals
    signer,           \* the Signer exercised on its own (sign.rs:7-9)
    sign_calls,       \* the sign_context calls made on `signer`, in order
    reqs,             \* the requests handled concurrently, one handler task each
    delivered,        \* per task: what its own fetch_price and clock read returned
    fmt               \* the format_pyth_price call followed on its own

vars == <<state, overflow_checks, req, signer, sign_calls, reqs, delivered, fmt>>

----------------------------------------------------------------------------
(* Bounds of the model.                                                    *)

\* longest validInputs / validOutputs list of a request body
MaxIO == 2
\* number of consecutive sign_context calls followed on one signer
MaxSignCalls == 3
\* decimal digits the modelled Float division keeps for a reciprocal
InvDigits == 6
\* number of requests handled at the same time
NumRequests == 2

----------------------------------------------------------------------------
(* Byte-string arithmetic.                                                 *)

Zeros(n) == [i \in 1..n |-> 0]

RECURSIVE NatToBytes(_, _)
\* the n-byte big-endian form of a natural number below 256^n
NatToBytes(v, n) ==
    IF n = 0 THEN <<>> ELSE Append(NatToBytes(v \div 256, n - 1), v % 256)

RECURSIVE BytesToNat(_)
\* the number a (short) big-endian byte string stands for
BytesToNat(b) ==
    IF b = <<>> THEN 0
    ELSE 256 * BytesToNat(SubSeq(b, 1, Len(b) - 1)) + b[Len(b)]

IsZeroBytes(b) == \A i \in 1..Len(b) : b[i] = 0

\* a + b on byte strings of one length: the wrapped sum and the carry out
AddBytes(a, b) ==
    LET n == Len(a)
        c[i \in 0..n] ==
            IF i = n THEN 0 ELSE (a[i + 1] + b[i + 1] + c[i + 1]) \div 256
    IN  [sum   |-> [i \in 1..n |-> (a[i] + b[i] + c[i]) % 256],
         carry |-> c[0]]

RECURSIVE MulAddSmall(_, _, _)
\* b * m + a for small m, a, on a byte string; the carry out is dropped
MulAddSmall(b, m, a) ==
    IF b = <<>> THEN <<>>
    ELSE LET v == b[Len(b)] * m + a
         IN  Append(MulAddSmall(SubSeq(b, 1, Len(b) - 1), m, v \div 256),
                    v % 256)

\* b divided by a small d: quotient bytes and remainder
DivModSmall(b, d) ==
    LET n == Len(b)
        r[i \in 0..n] ==
            IF i = 0 THEN 0 ELSE (r[i - 1] * 256 + b[i]) % d
    IN  [quot |-> [i \in 1..n |-> (r[i - 1] * 256 + b[i]) \div d],
         rem  |-> r[n]]

\* two's complement negation at the width of b
NegBytes(b) ==
    AddBytes([i \in 1..Len(b) |-> 255 - b[i]], NatToBytes(1, Len(b))).sum

ZeroExtend(b, n) == Zeros(n - Len(b)) \o b

----------------------------------------------------------------------------
(* Decimal strings.                                                        *)

Digits == <<"0", "1", "2", "3", "4", "5", "6", "7", "8", "9">>
DigitChars == {Digits[i] : i \in 1..10}
DigitVal(ch) == (CHOOSE i \in 1..10 : Digits[i] = ch) - 1

Repeat(ch, n) == [i \in 1..n |-> ch]

RECURSIVE NatToString(_)
\* Rust's to_string of a non-negative integer held as a model integer
NatToString(v) ==
    IF v < 10 THEN <<Digits[v + 1]>>
    ELSE Append(NatToString(v \div 10), Digits[(v % 10) + 1])

RECURSIVE BytesToString(_)
\* Rust's to_string of an unsigned integer held as bytes (u64::to_string)
BytesToString(b) ==
    LET qr == DivModSmall(b, 10)
    IN  IF IsZeroBytes(qr.quot) THEN <<Digits[qr.rem + 1]>>
        ELSE Append(BytesToString(qr.quot), Digits[qr.rem + 1])

RECURSIVE DigitsToBytes(_, _)
\* the n-byte value of a string of decimal digits
DigitsToBytes(s, n) ==
    IF s = <<>> THEN Zeros(n)
    ELSE MulAddSmall(DigitsToBytes(SubSeq(s, 1, Len(s) - 1), n), 10,
                     DigitVal(s[Len(s)]))

Abs(v) == IF v < 0 THEN -v ELSE v


RECURSIVE Pow10(_)
Pow10(n) == IF n = 0 THEN 1 ELSE 10 * Pow10(n - 1)

RECURSIVE LeadingDigits(_)
\* how many decimal digits a string starts with
LeadingDigits(s) ==
    IF s = <<>> \/ s[1] \notin DigitChars THEN 0
    ELSE 1 + LeadingDigits(Tail(s))

RECURSIVE StripTrailingZeros(_)
StripTrailingZeros(s) ==
    IF s = <<>> \/ s[Len(s)] # "0" THEN s
    ELSE StripTrailingZeros(SubSeq(s, 1, Len(s) - 1))

----------------------------------------------------------------------------
(* Rain DecimalFloat (the rain_math_float crate used by oracle.rs): a      *)
(* value coefficient * 10^exponent, held as sign, 224-bit magnitude and    *)
(* exponent, packed into 32 bytes as exponent (4 bytes) then coefficient   *)
(* (28 bytes), both two's complement big-endian.                           *)

MkFloat(neg, mag, exp) == [neg |-> neg /\ ~IsZeroBytes(mag), mag |-> mag, exp |-> exp]

\* Float::parse: optional '-', integer digits, optional '.' and fraction
\* digits.  The integer digits are kept whole, trailing zeros of the
\* fraction are not part of the coefficient.  (The 'e' notation the crate
\* also reads is never produced by the callers and is not modelled.)
FloatParse(s) ==
    LET neg      == s # <<>> /\ s[1] = "-"
        body     == IF neg THEN Tail(s) ELSE s
        intLen   == LeadingDigits(body)
        intPart  == SubSeq(body, 1, intLen)
        after    == SubSeq(body, intLen + 1, Len(body))
        frac     == IF after = <<>> THEN <<>> ELSE Tail(after)
        kept     == StripTrailingZeros(frac)
    IN  IF intLen = 0 THEN [ok |-> FALSE, err |-> "ParseEmptyDecimalString"]
        ELSE IF after = <<>>
            THEN [ok |-> TRUE, val |-> MkFloat(neg, DigitsToBytes(intPart, 28), 0)]
        ELSE IF after[1] # "." \/ frac = <<>> \/ LeadingDigits(frac) # Len(frac)
            THEN [ok |-> FALSE, err |-> "MalformedDecimalPoint"]
        ELSE [ok |-> TRUE,
              val |-> MkFloat(neg, DigitsToBytes(intPart \o kept, 28), -Len(kept))]

\* Float division a / b: fails on a zero divisor; otherwise the quotient,
\* kept to InvDigits decimal digits below the operands' own scale.
FloatDiv(a, b) ==
    IF IsZeroBytes(b.mag) THEN [ok |-> FALSE, err |-> "DivisionByZero"]
    ELSE [ok |-> TRUE,
          val |-> MkFloat(a.neg # b.neg,
                          NatToBytes((BytesToNat(a.mag) * Pow10(InvDigits))
                                        \div BytesToNat(b.mag), 28),
                          a.exp - InvDigits - b.exp)]

\* B256 of a Float (`.into()`): zero is the all-zero word
FloatToB256(f) ==
    IF IsZeroBytes(f.mag) THEN Zeros(32)
    ELSE (IF f.exp < 0 THEN NegBytes(NatToBytes(-f.exp, 4)) ELSE NatToBytes(f.exp, 4))
         \o (IF f.neg THEN NegBytes(f.mag) ELSE f.mag)

\* the Float a 32-byte word unpacks to (Float::from(B256))
B256ToFloat(w) ==
    LET e == SubSeq(w, 1, 4)
        c == SubSeq(w, 5, 32)
    IN  [neg |-> c[1] >= 128,
         mag |-> IF c[1] >= 128 THEN NegBytes(c) ELSE c,
         exp |-> IF e[1] >= 128 THEN -BytesToNat(NegBytes(e)) ELSE BytesToNat(e)]

----------------------------------------------------------------------------
(* oracle.rs                                                               *)

\* format_pyth_price without the zero padding of a short coefficient
format_pyth_price_unpadded(price, expo) ==
    IF expo >= 0
    THEN (IF price < 0 THEN <<"-">> ELSE <<>>) \o NatToString(Abs(price))
            \o Repeat("0", expo)
    ELSE LET digits == NatToString(Abs(price))
         IN  IF Len(digits) <= -expo
             THEN (IF price < 0 THEN <<"-", "0", ".">> ELSE <<"0", ".">>) \o digits
             ELSE (IF price < 0 THEN <<"-">> ELSE <<>>)
                     \o SubSeq(digits, 1, Len(digits) + expo) \o <<".">>
                     \o SubSeq(digits, Len(digits) + expo + 1, Len(digits))

\* format_pyth_price: price * 10^expo as a decimal string
format_pyth_price(price, expo) ==
    IF expo >= 0
    THEN (IF price < 0 THEN <<"-">> ELSE <<>>) \o NatToString(Abs(price))
            \o Repeat("0", expo)
    ELSE LET abs_expo    == -expo
             is_negative == price < 0
             digits      == NatToString(Abs(price))
         IN  IF Len(digits) <= abs_expo
             THEN (IF is_negative THEN <<"-", "0", ".">> ELSE <<"0", ".">>)
                     \o Repeat("0", abs_expo - Len(digits)) \o digits
             ELSE LET split_pos == Len(digits) - abs_expo
                  IN  (IF is_negative THEN <<"-">> ELSE <<>>)
                         \o SubSeq(digits, 1, split_pos) \o <<".">>
                         \o SubSeq(digits, split_pos + 1, Len(digits))

\* build_context falling back to the price itself when it cannot be inverted
build_context_default_on_zero(price, expo, expiry, direction) ==
    LET price_float  == FloatParse(format_pyth_price(price, expo))
        inverse      == FloatDiv(FloatParse(<<"1">>).val, price_float.val)
        final_price  == IF direction = "AsIs" \/ ~inverse.ok THEN price_float
                        ELSE inverse
        expiry_float == FloatParse(BytesToString(expiry))
    IN  [ok |-> TRUE,
         context |-> <<FloatToB256(final_price.val),
                       FloatToB256(expiry_float.val)>>]

\* build_context: [price, expiry] as two 32-byte words, or an error
build_context(price, expo, expiry, direction) ==
    LET price_str    == format_pyth_price(price, expo)
        price_float  == FloatParse(price_str)
        one          == FloatParse(<<"1">>)
        final_price  == IF direction = "AsIs" THEN price_float
                        ELSE IF ~one.ok THEN one
                        ELSE FloatDiv(one.val, price_float.val)
        expiry_str   == BytesToString(expiry)
        expiry_float == FloatParse(expiry_str)
    IN  IF ~price_float.ok
            THEN [ok |-> FALSE, err |-> "Failed to parse price as Rain float"]
        ELSE IF ~final_price.ok
            THEN [ok |-> FALSE, err |-> "Failed to invert price"]
        ELSE IF ~expiry_float.ok
            THEN [ok |-> FALSE, err |-> "Failed to parse expiry as Rain float"]
        ELSE [ok |-> TRUE,
              context |-> <<FloatToB256(final_price.val),
                            FloatToB256(expiry_float.val)>>]

----------------------------------------------------------------------------
(* sign.rs                                                                 *)

\* TEST_KEY and the key of the next well-known development account
PrivateKeys ==
    {"ac0974bec39a17e36ba4a6b4d238ff944bacb478cbed5efcae784d7bf4f2ff80",
     "59c6995e998f97a5a0044966f0945389dc9e86dae88c7a8412f4603b6b78690d"}

\* PrivateKeySigner::address
AddressOf(key) ==
    IF key = "ac0974bec39a17e36ba4a6b4d238ff944bacb478cbed5efcae784d7bf4f2ff80"
    THEN "0xf39Fd6e51aad88F6F4ce6aB8827279cffFb92266"
    ELSE "0x70997970C51812dc3A010C7d01b50e0d17dc79C8"

\* Signer::new
NewSigner(private_key) == [inner |-> private_key]

\* Signer::address
address(self) == AddressOf(self.inner)

\* keccak256, collision-free: the digest is the preimage under a tag (256,
\* not a byte) that tells a digest from plain bytes
keccak256(bytes) == <<256>> \o bytes

\* the nonce of deterministic ECDSA (RFC 6979): a function of key and digest
Rfc6979Nonce(key, hash) == <<key>> \o hash

\* an ECDSA signature (r, s, v): fixed by the key, the digest signed and the nonce
EcdsaSign(key, hash, nonce) == [key |-> key, prehash |-> hash, nonce |-> nonce]

\* sign_hash drawing a fresh nonce on every call
sign_hash_fresh_nonce(key, hash) == EcdsaSign(key, hash, <<key, Len(sign_calls)>>)

\* alloy's Signer::sign_hash on a PrivateKeySigner: signs the given 32-byte
\* hash itself (it is sign_message that prefixes and hashes first)
sign_hash(key, hash) == EcdsaSign(key, hash, Rfc6979Nonce(key, hash))

RECURSIVE Flatten(_)
\* the concatenation of a sequence of byte strings
Flatten(words) ==
    IF words = <<>> THEN <<>> ELSE Head(words) \o Flatten(Tail(words))

\* the words concatenated last to first
packed_of_reversed(context) ==
    Flatten([i \in 1..Len(context) |-> context[Len(context) + 1 - i]])

\* abi.encodePacked(bytes32[]) in sign_context: the raw words, concatenated
packed_of(context) == Flatten(context)

\* sign_context: the signature and the signer's address
sign_context(self, context) ==
    LET packed    == packed_of(context)
        hash      == keccak256(packed)
        signature == sign_hash(self.inner, hash)
    IN  [signature |-> signature, signer |-> address(self)]

----------------------------------------------------------------------------
(* lib.rs: configuration and the direction resolver                        *)

Tokens == {"WETH", "USDC", "DAI"}

\* AppState::new
NewAppState(private_key, pyth_price_feed_id, expiry_seconds, token_pair) ==
    [signer             |-> NewSigner(private_key),
     pyth_price_feed_id |-> pyth_price_feed_id,
     expiry_seconds     |-> expiry_seconds,
     token_pair         |-> token_pair]

\* price_direction with the two match arms in the other order
price_direction_inverted_first(self, input_token, output_token) ==
    LET base  == self.token_pair.base_token
        quote == self.token_pair.quote_token
    IN  IF input_token = base /\ output_token = quote
            THEN [ok |-> TRUE, direction |-> "Inverted"]
        ELSE IF input_token = quote /\ output_token = base
            THEN [ok |-> TRUE, direction |-> "AsIs"]
        ELSE [ok  |-> FALSE,
              err |-> [kind         |-> "UnsupportedTokenPair",
                       input_token  |-> input_token,
                       output_token |-> output_token,
                       base_token   |-> base,
                       quote_token  |-> quote]]

\* price_direction with the roles of the two arms exchanged
price_direction_swapped(self, input_token, output_token) ==
    LET base  == self.token_pair.base_token
        quote == self.token_pair.quote_token
    IN  IF input_token = base /\ output_token = quote
            THEN [ok |-> TRUE, direction |-> "AsIs"]
        ELSE IF input_token = quote /\ output_token = base
            THEN [ok |-> TRUE, direction |-> "Inverted"]
        ELSE [ok  |-> FALSE,
              err |-> [kind         |-> "UnsupportedTokenPair",
                       input_token  |-> input_token,
                       output_token |-> output_token,
                       base_token   |-> base,
                       quote_token  |-> quote]]

\* AppState::price_direction
price_direction(self, input_token, output_token) ==
    LET is_input_base   == input_token = self.token_pair.base_token
        is_input_quote  == input_token = self.token_pair.quote_token
        is_output_base  == output_token = self.token_pair.base_token
        is_output_quote == output_token = self.token_pair.quote_token
    IN  IF is_input_quote /\ is_output_base
            THEN [ok |-> TRUE, direction |-> "AsIs"]
        ELSE IF is_input_base /\ is_output_quote
            THEN [ok |-> TRUE, direction |-> "Inverted"]
        ELSE [ok  |-> FALSE,
              err |-> [kind         |-> "UnsupportedTokenPair",
                       input_token  |-> input_token,
                       output_token |-> output_token,
                       base_token   |-> self.token_pair.base_token,
                       quote_token  |-> self.token_pair.quote_token]]

\* OracleRequestError::error_code
error_code(err) ==
    CASE err.kind = "InvalidBody"          -> "invalid_body"
      [] err.kind = "InvalidIndex"         -> "invalid_index"
      [] err.kind = "UnsupportedTokenPair" -> "unsupported_token_pair"

\* AppError::into_response; From<OracleRequestError> makes a BadRequest,
\* From<anyhow::Error> an Internal
into_response(app_error) ==
    IF app_error.kind = "Internal"
    THEN [status |-> 500, error |-> "internal_error", detail |-> app_error]
    ELSE [status |-> 400, error |-> error_code(app_error), detail |-> app_error]

\* U256::try_into::<usize>().unwrap_or(usize::MAX) on a 64-bit target
to_usize_or_max(index) ==
    IF IsZeroBytes(SubSeq(index, 1, 24)) THEN SubSeq(index, 25, 32)
    ELSE [i \in 1..8 |-> 255]

\* Vec::get(idx).is_some() for a list shorter than 256 entries
InRange(list, idx) == IsZeroBytes(SubSeq(idx, 1, 7)) /\ idx[8] < Len(list)

\* Vec::get(idx) when it is Some
Get(list, idx) == list[idx[8] + 1]

----------------------------------------------------------------------------
(* lib.rs: the POST /context handler.  A request is received (its body     *)
(* read), post_signed_context runs up to the await of fetch_price, then    *)
(* build_signed_context_response runs up to the await of sign_hash, then   *)
(* to the response.                                                        *)

NoBody == [ok |-> FALSE, validInputs |-> <<>>, validOutputs |-> <<>>,
           inputIOIndex |-> Zeros(32), outputIOIndex |-> Zeros(32)]

NoError == [kind |-> "None"]

NoResponse == [status |-> 0]

IdleReq ==
    [pc           |-> "idle",
     body         |-> NoBody,
     input_token  |-> "",
     output_token |-> "",
     direction    |-> "",
     price_data   |-> [price |-> 0, expo |-> 0],
     now          |-> <<>>,
     expiry       |-> <<>>,
     context      |-> <<>>,
     err          |-> NoError,
     response     |-> NoResponse,
     steps        |-> <<>>,
     feed_calls   |-> 0,
     clock_reads  |-> 0,
     responses    |-> 0]

\* `?` on an error: the handler returns it and axum sends into_response
Fail(rq, steps, app_error) ==
    [rq EXCEPT !.pc = "done", !.body = NoBody, !.steps = steps,
               !.err = app_error, !.response = into_response(app_error),
               !.responses = rq.responses + 1]

\* a panic unwinds the handler's task: the connection closes, no response
Panic(rq, steps, why) ==
    [rq EXCEPT !.pc = "panicked", !.steps = steps,
               !.err = [kind |-> "Panic", source |-> why]]

\* post_signed_context fetching the price before it resolves the direction
post_signed_context_fetch_first(self, rq) ==
    LET body       == rq.body
        input_idx  == to_usize_or_max(body.inputIOIndex)
        output_idx == to_usize_or_max(body.outputIOIndex)
        input_token  == Get(body.validInputs, input_idx).token
        output_token == Get(body.validOutputs, output_idx).token
    IN  IF ~body.ok
            THEN Fail(rq, <<"decode">>, [kind |-> "InvalidBody"])
        ELSE IF ~InRange(body.validInputs, input_idx)
            THEN Fail(rq, <<"decode", "input_index">>,
                      [kind |-> "InvalidIndex", io |-> "input",
                       index |-> input_idx, len |-> Len(body.validInputs)])
        ELSE IF ~InRange(body.validOutputs, output_idx)
            THEN Fail(rq, <<"decode", "input_index", "output_index">>,
                      [kind |-> "InvalidIndex", io |-> "output",
                       index |-> output_idx, len |-> Len(body.validOutputs)])
        ELSE IF ~price_direction(self, input_token, output_token).ok
            THEN Fail([rq EXCEPT !.feed_calls = rq.feed_calls + 1],
                      <<"decode", "input_index", "output_index", "fetch",
                        "direction">>,
                      price_direction(self, input_token, output_token).err)
        ELSE [rq EXCEPT !.pc = "fetch", !.body = NoBody,
                        !.input_token = input_token,
                        !.output_token = output_token,
                        !.direction =
                            price_direction(self, input_token, output_token).direction,
                        !.steps = <<"decode", "input_index", "output_index",
                                    "fetch", "direction">>,
                        !.feed_calls = rq.feed_calls + 1]

\* post_signed_context, from the decode to the call of fetch_price
post_signed_context(self, rq) ==
    LET body       == rq.body
        input_idx  == to_usize_or_max(body.inputIOIndex)
        output_idx == to_usize_or_max(body.outputIOIndex)
        input_token  == Get(body.validInputs, input_idx).token
        output_token == Get(body.validOutputs, output_idx).token
        direction    == price_direction(self, input_token, output_token)
    IN  IF ~body.ok
            THEN Fail(rq, <<"decode">>, [kind |-> "InvalidBody"])
        ELSE IF ~InRange(body.validInputs, input_idx)
            THEN Fail(rq, <<"decode", "input_index">>,
                      [kind |-> "InvalidIndex", io |-> "input",
                       index |-> input_idx, len |-> Len(body.validInputs)])
        ELSE IF ~InRange(body.validOutputs, output_idx)
            THEN Fail(rq, <<"decode", "input_index", "output_index">>,
                      [kind |-> "InvalidIndex", io |-> "output",
                       index |-> output_idx, len |-> Len(body.validOutputs)])
        ELSE IF ~direction.ok
            THEN Fail(rq, <<"decode", "input_index", "output_index", "direction">>,
                      direction.err)
        ELSE [rq EXCEPT !.pc = "fetch", !.body = NoBody,
                        !.input_token = input_token,
                        !.output_token = output_token,
                        !.direction = direction.direction,
                        !.steps = <<"decode", "input_index", "output_index",
                                    "direction", "fetch">>,
                        !.feed_calls = rq.feed_calls + 1]

\* build_signed_context_response when fetch_price returned an error
fetch_failed(rq) ==
    Fail(rq, rq.steps, [kind |-> "Internal", source |-> "fetch_price"])

\* build_signed_context_response taking the price from a slot the handler
\* tasks share (the last price any task was given) instead of its own fetch
build_signed_context_response_shared_price(self, checks, rq, price_data, clock) ==
    LET others  == {q \in DOMAIN delivered : delivered[q].present}
        shared  == IF others = {} THEN price_data
                   ELSE delivered[CHOOSE q \in others : TRUE].price_data
        sum     == AddBytes(clock.secs, self.expiry_seconds)
        expiry  == sum.sum
        context == build_context(shared.price, shared.expo, expiry,
                                 rq.direction)
        read    == [rq EXCEPT !.price_data = shared,
                              !.clock_reads = rq.clock_reads + 1]
    IN  IF ~clock.ok
            THEN Panic(read, Append(rq.steps, "clock"), "duration_since unwrap")
        ELSE IF sum.carry = 1 /\ checks
            THEN Panic([read EXCEPT !.now = clock.secs],
                       Append(rq.steps, "clock"), "attempt to add with overflow")
        ELSE IF ~context.ok
            THEN Fail([read EXCEPT !.now = clock.secs, !.expiry = expiry],
                      rq.steps \o <<"clock", "build">>,
                      [kind |-> "Internal", source |-> "build_context",
                       msg |-> context.err])
        ELSE [read EXCEPT !.pc = "sign", !.now = clock.secs, !.expiry = expiry,
                          !.context = context.context,
                          !.steps = rq.steps \o <<"clock", "build", "sign">>]

\* build_signed_context_response from the price to the call of sign_hash.
\* clock is SystemTime::now().duration_since(UNIX_EPOCH): Ok(seconds) or Err
build_signed_context_response(self, checks, rq, price_data, clock) ==
    LET sum     == AddBytes(clock.secs, self.expiry_seconds)
        expiry  == sum.sum
        context == build_context(price_data.price, price_data.expo, expiry,
                                 rq.direction)
        read    == [rq EXCEPT !.price_data = price_data,
                              !.clock_reads = rq.clock_reads + 1]
    IN  IF ~clock.ok
            THEN Panic(read, Append(rq.steps, "clock"), "duration_since unwrap")
        ELSE IF sum.carry = 1 /\ checks
            THEN Panic([read EXCEPT !.now = clock.secs],
                       Append(rq.steps, "clock"), "attempt to add with overflow")
        ELSE IF ~context.ok
            THEN Fail([read EXCEPT !.now = clock.secs, !.expiry = expiry],
                      rq.steps \o <<"clock", "build">>,
                      [kind |-> "Internal", source |-> "build_context",
                       msg |-> context.err])
        ELSE [read EXCEPT !.pc = "sign", !.now = clock.secs, !.expiry = expiry,
                          !.context = context.context,
                          !.steps = rq.steps \o <<"clock", "build", "sign">>]

\* sign_context returned an error
sign_failed(rq) ==
    Fail(rq, rq.steps, [kind |-> "Internal", source |-> "sign_context"])

\* sign_context returned: the OracleResponse is sent as JSON
respond(self, rq) ==
    LET signed == sign_context(self.signer, rq.context)
    IN  [rq EXCEPT !.pc = "done",
                   !.response = [status    |-> 200,
                                 signer    |-> signed.signer,
                                 context   |-> rq.context,
                                 signature |-> signed.signature],
                   !.responses = rq.responses + 1]

----------------------------------------------------------------------------
(* The inputs followed.                                                    *)

\* the default feed of main.rs
FeedIds == {"ff61491a931112ddf1bd8147cd1b641375f79f5825126d665480874634fd0ace"}

\* --expiry-seconds: the default 5, and the largest u64
ExpiryWindows == {NatToBytes(5, 8), [i \in 1..8 |-> 255]}

\* seconds since the epoch read from the system clock
ClockReadings == {NatToBytes(1700000000, 8), NatToBytes(1700000007, 8)}

\* the outcomes of duration_since(UNIX_EPOCH)
ClockResults ==
    {[ok |-> TRUE, secs |-> t] : t \in ClockReadings}
        \cup {[ok |-> FALSE, secs |-> Zeros(8)]}

\* the price samples the feed returns
PriceSamples == [price : {0, 31, 2500, -5}, expo : {-5, -2, 0, 2}]

\* the tokens of the orders sent (DAI is only ever a configured token)
OrderTokens == {"WETH", "USDC"}

RECURSIVE SeqsUpTo(_, _)
\* the sequences over S of length at most n
SeqsUpTo(S, n) ==
    IF n = 0 THEN {<<>>}
    ELSE LET shorter == SeqsUpTo(S, n - 1)
         IN  shorter \cup {Append(q, x) : q \in shorter, x \in S}

IOLists == SeqsUpTo({[token |-> t] : t \in OrderTokens}, MaxIO)

\* uint256 indexes: 0..MaxIO, and 2^64 (above a machine word, low word 0)
IOIndexes ==
    {NatToBytes(i, 32) : i \in 0..MaxIO}
        \cup {[i \in 1..32 |-> IF i = 24 THEN 1 ELSE 0]}

\* request bodies: one that does not decode, and the decoded tuples
Bodies ==
    {NoBody} \cup
    [ok : {TRUE}, validInputs : IOLists, validOutputs : IOLists,
     inputIOIndex : IOIndexes, outputIOIndex : IOIndexes]

\* the 32-byte words of the signer's own tests
TestWords == {NatToBytes(1000, 32), NatToBytes(2000, 32)}

TestContexts == SeqsUpTo(TestWords, 2) \ {<<>>}

\* i32::MIN, the one i32 whose negation is not an i32
I32Min == -2147483647 - 1

\* format_pyth_price was not called yet
NoCall ==
    [called |-> FALSE, price |-> 0, expo |-> 0,
     result |-> [returned |-> FALSE, panic |-> ""]]

\* prices passed to format_pyth_price: zero, one to seven digits, both signs
FormatPrices ==
    {0, 1, -1, 5, -9, 31, -31, 310, 2500, -2500, 99999, 3100123, -3100123}

\* exponents passed to format_pyth_price: around zero, and i32::MIN
FormatExpos == {I32Min, -8, -5, -3, -2, -1, 0, 1, 2}

\* the handler tasks running at the same time (one tokio task a request)
Requests == 1..NumRequests

\* nothing was returned to a task by the feed and the clock yet
NoDelivery ==
    [present |-> FALSE, price_data |-> [price |-> 0, expo |-> 0],
     clock |-> [ok |-> FALSE, secs |-> Zeros(8)]]

\* a body with one input and one output order, both at index 0
OrderBody(input_token, output_token) ==
    [ok |-> TRUE,
     validInputs   |-> <<[token |-> input_token]>>,
     validOutputs  |-> <<[token |-> output_token]>>,
     inputIOIndex  |-> NatToBytes(0, 32),
     outputIOIndex |-> NatToBytes(0, 32)]

\* the bodies of the concurrent requests: undecodable, and USDC for WETH
ConcurrentBodies == {NoBody, OrderBody("USDC", "WETH")}

\* the prices the feed returns while requests overlap
ConcurrentPrices == [price : {31, 2500}, expo : {-2}]

----------------------------------------------------------------------------
(* The server.                                                             *)

Init ==
    /\ \E k \in PrivateKeys, f \in FeedIds, e \in ExpiryWindows,
          b \in Tokens, q \in Tokens :
            state = NewAppState(k, f, e, [base_token |-> b, quote_token |-> q])
    /\ overflow_checks \in BOOLEAN
    /\ req = IdleReq
    /\ signer = state.signer
    /\ sign_calls = <<>>
    /\ reqs = [r \in Requests |-> IdleReq]
    /\ delivered = [r \in Requests |-> NoDelivery]
    /\ fmt = NoCall

\* a request arrives at POST /context and its body is read
Receive ==
    /\ req.pc = "idle"
    /\ \E body \in Bodies :
            req' = [IdleReq EXCEPT !.pc = "received", !.body = body]
    /\ UNCHANGED <<state, overflow_checks, signer, sign_calls, reqs, delivered, fmt>>

\* the handler runs up to the await of fetch_price
HandleRequest ==
    /\ req.pc = "received"
    /\ req' = post_signed_context(state, req)
    /\ UNCHANGED <<state, overflow_checks, signer, sign_calls, reqs, delivered, fmt>>

\* fetch_price returns an error
FetchErr ==
    /\ req.pc = "fetch"
    /\ req' = fetch_failed(req)
    /\ UNCHANGED <<state, overflow_checks, signer, sign_calls, reqs, delivered, fmt>>

\* fetch_price returns a price: clock read, expiry, build_context
FetchOk ==
    /\ req.pc = "fetch"
    /\ \E price_data \in PriceSamples, clock \in ClockResults :
            req' = build_signed_context_response(state, overflow_checks, req,
                                                 price_data, clock)
    /\ UNCHANGED <<state, overflow_checks, signer, sign_calls, reqs, delivered, fmt>>

\* sign_context returns the signature
SignOk ==
    /\ req.pc = "sign"
    /\ req' = respond(state, req)
    /\ UNCHANGED <<state, overflow_checks, signer, sign_calls, reqs, delivered, fmt>>

\* sign_context returns an error
SignErr ==
    /\ req.pc = "sign"
    /\ req' = sign_failed(req)
    /\ UNCHANGED <<state, overflow_checks, signer, sign_calls, reqs, delivered, fmt>>

\* the connection is done with; the server takes the next request
Finish ==
    /\ req.pc \in {"done", "panicked"}
    /\ req' = IdleReq
    /\ UNCHANGED <<state, overflow_checks, signer, sign_calls, reqs, delivered, fmt>>

Next ==
    \/ Receive
    \/ HandleRequest
    \/ FetchErr
    \/ FetchOk
    \/ SignOk
    \/ SignErr
    \/ Finish

Spec == Init /\ [][Next]_vars

----------------------------------------------------------------------------
(* The signer on its own, called as the tests of sign.rs call it.          *)

InitSign ==
    /\ state = NewAppState(CHOOSE k \in PrivateKeys : TRUE,
                           CHOOSE f \in FeedIds : TRUE,
                           NatToBytes(5, 8),
                           [base_token |-> "WETH", quote_token |-> "USDC"])
    /\ overflow_checks = FALSE
    /\ req = IdleReq
    /\ \E k \in PrivateKeys : signer = NewSigner(k)
    /\ sign_calls = <<>>
    /\ reqs = [r \in Requests |-> IdleReq]
    /\ delivered = [r \in Requests |-> NoDelivery]
    /\ fmt = NoCall

\* one call of sign_context
SignContext(context) ==
    /\ Len(sign_calls) < MaxSignCalls
    /\ sign_calls' = Append(sign_calls,
                            [context |-> context,
                             result  |-> sign_context(signer, context)])
    /\ UNCHANGED <<state, overflow_checks, req, signer, reqs, delivered, fmt>>

NextSign == \E context \in TestContexts : SignContext(context)

SpecSign == InitSign /\ [][NextSign]_vars

----------------------------------------------------------------------------
(* The server handling NumRequests requests at once: every request is its  *)
(* own task running post_signed_context over the one Arc<AppState>; the    *)
(* tasks interleave at the awaits (body, fetch_price) in any order.        *)

InitConcurrent ==
    /\ \E k \in PrivateKeys, f \in FeedIds :
            state = NewAppState(k, f, NatToBytes(5, 8),
                                [base_token |-> "WETH",
                                 quote_token |-> "USDC"])
    /\ overflow_checks = FALSE
    /\ req = IdleReq
    /\ signer = state.signer
    /\ sign_calls = <<>>
    /\ reqs = [r \in Requests |-> IdleReq]
    /\ delivered = [r \in Requests |-> NoDelivery]
    /\ fmt = NoCall

\* task r: a request arrives and its body is read
ReceiveRequest(r) ==
    /\ reqs[r].pc = "idle"
    /\ \E body \in ConcurrentBodies :
            reqs' = [reqs EXCEPT ![r] = [IdleReq EXCEPT !.pc = "received",
                                                        !.body = body]]
    /\ UNCHANGED <<state, overflow_checks, req, signer, sign_calls,
                   delivered, fmt>>

\* task r runs up to the await of fetch_price
RunHandler(r) ==
    /\ reqs[r].pc = "received"
    /\ reqs' = [reqs EXCEPT ![r] = post_signed_context(state, reqs[r])]
    /\ UNCHANGED <<state, overflow_checks, req, signer, sign_calls,
                   delivered, fmt>>

\* task r: fetch_price returns an error
FetchFails(r) ==
    /\ reqs[r].pc = "fetch"
    /\ reqs' = [reqs EXCEPT ![r] = fetch_failed(reqs[r])]
    /\ UNCHANGED <<state, overflow_checks, req, signer, sign_calls,
                   delivered, fmt>>

\* task r: fetch_price returns a price; clock read, expiry, build_context
FetchReturns(r) ==
    /\ reqs[r].pc = "fetch"
    /\ \E price_data \in ConcurrentPrices, clock \in ClockResults :
            /\ reqs' = [reqs EXCEPT ![r] =
                    build_signed_context_response(state, overflow_checks,
                                                  reqs[r], price_data, clock)]
            /\ delivered' = [delivered EXCEPT ![r] =
                    [present |-> TRUE, price_data |-> price_data,
                     clock |-> clock]]
    /\ UNCHANGED <<state, overflow_checks, req, signer, sign_calls, fmt>>

\* task r: sign_context returns the signature and the response is sent
SignReturns(r) ==
    /\ reqs[r].pc = "sign"
    /\ reqs' = [reqs EXCEPT ![r] = respond(state, reqs[r])]
    /\ UNCHANGED <<state, overflow_checks, req, signer, sign_calls,
                   delivered, fmt>>

\* task r: sign_context returns an error
SignFails(r) ==
    /\ reqs[r].pc = "sign"
    /\ reqs' = [reqs EXCEPT ![r] = sign_failed(reqs[r])]
    /\ UNCHANGED <<state, overflow_checks, req, signer, sign_calls,
                   delivered, fmt>>

\* task r is over; the next request takes its place
TaskEnds(r) ==
    /\ reqs[r].pc \in {"done", "panicked"}
    /\ reqs' = [reqs EXCEPT ![r] = IdleReq]
    /\ delivered' = [delivered EXCEPT ![r] = NoDelivery]
    /\ UNCHANGED <<state, overflow_checks, req, signer, sign_calls, fmt>>

NextConcurrent ==
    \E r \in Requests :
        \/ ReceiveRequest(r)
        \/ RunHandler(r)
        \/ FetchFails(r)
        \/ FetchReturns(r)
        \/ SignReturns(r)
        \/ SignFails(r)
        \/ TaskEnds(r)

SpecConcurrent == InitConcurrent /\ [][NextConcurrent]_vars

----------------------------------------------------------------------------
(* format_pyth_price on its own, called as the tests of oracle.rs call it. *)

\* one call of format_pyth_price: the string returned, or the panic.
\* At expo = i32::MIN `-expo` overflows: with overflow checks the negation
\* panics; without, it wraps to i32::MIN, `as usize` sign-extends it and
\* "0".repeat asks for more than isize::MAX bytes, which panics as well.
call_format_pyth_price(checks, price, expo) ==
    IF expo = I32Min
    THEN [returned |-> FALSE,
          panic |-> IF checks THEN "attempt to negate with overflow"
                    ELSE "capacity overflow"]
    ELSE [returned |-> TRUE, s |-> format_pyth_price(price, expo)]

InitFormat ==
    /\ state = NewAppState(CHOOSE k \in PrivateKeys : TRUE,
                           CHOOSE f \in FeedIds : TRUE,
                           NatToBytes(5, 8),
                           [base_token |-> "WETH", quote_token |-> "USDC"])
    /\ overflow_checks \in BOOLEAN
    /\ req = IdleReq
    /\ signer = state.signer
    /\ sign_calls = <<>>
    /\ reqs = [r \in Requests |-> IdleReq]
    /\ delivered = [r \in Requests |-> NoDelivery]
    /\ fmt = NoCall

\* format_pyth_price is called with a price and an exponent
FormatPrice ==
    /\ ~fmt.called
    /\ \E price \in FormatPrices, expo \in FormatExpos :
            fmt' = [called |-> TRUE, price |-> price, expo |-> expo,
                    result |-> call_format_pyth_price(overflow_checks,
                                                      price, expo)]
    /\ UNCHANGED <<state, overflow_checks, req, signer, sign_calls, reqs,
                   delivered>>

NextFormat == FormatPrice

SpecFormat == InitFormat /\ [][NextFormat]_vars

----------------------------------------------------------------------------
(* Properties.                                                             *)

\* a uint256 index addresses an entry of a list
IndexInRange(list, index) ==
    IsZeroBytes(SubSeq(index, 1, 31)) /\ index[32] < Len(list)

\* a received body names an input and an output token
NamesTokens(body) ==
    /\ body.ok
    /\ IndexInRange(body.validInputs, body.inputIOIndex)
    /\ IndexInRange(body.validOutputs, body.outputIOIndex)

RequestedInput(body) == body.validInputs[body.inputIOIndex[32] + 1].token
RequestedOutput(body) == body.validOutputs[body.outputIOIndex[32] + 1].token

BaseToken == state.token_pair.base_token
QuoteToken == state.token_pair.quote_token

\* the handler's step on a received request whose body names both tokens
ResolvesTokens == req.pc = "received" /\ NamesTokens(req.body)

\* the request was rejected with UnsupportedTokenPair carrying these tokens
RejectedPair(rq, input_token, output_token) ==
    /\ rq.pc = "done"
    /\ rq.direction = ""
    /\ rq.err = [kind         |-> "UnsupportedTokenPair",
                 input_token  |-> input_token,
                 output_token |-> output_token,
                 base_token   |-> BaseToken,
                 quote_token  |-> QuoteToken]

\* C1: price_direction applies the first-match rule: AsIs when output is
\* the base token and input the quote token; otherwise Inverted when input
\* is the base token and output the quote token; otherwise it fails with
\* UnsupportedTokenPair carrying the two requested and the two configured
\* tokens, and no direction is returned.
C1_FirstMatchRule ==
    [][ResolvesTokens =>
        LET input_token  == RequestedInput(req.body)
            output_token == RequestedOutput(req.body)
        IN  IF output_token = BaseToken /\ input_token = QuoteToken
                THEN req'.pc = "fetch" /\ req'.direction = "AsIs"
            ELSE IF input_token = BaseToken /\ output_token = QuoteToken
                THEN req'.pc = "fetch" /\ req'.direction = "Inverted"
            ELSE RejectedPair(req', input_token, output_token)]_vars

\* the second arm of the rule was taken, on a pair that is not ambiguous
C1_Witness ==
    /\ req.pc = "fetch"
    /\ req.direction = "Inverted"
    /\ req.input_token = BaseToken /\ req.output_token = QuoteToken
    /\ BaseToken # QuoteToken

\* C5 as stated: whenever the configured pair is ambiguous (base = quote),
\* or the requested input and output tokens both match the same role, the
\* request is rejected and no direction is returned.
C5_AmbiguousRejected ==
    (req.direction # "") =>
        /\ BaseToken # QuoteToken
        /\ ~(req.input_token = BaseToken /\ req.output_token = BaseToken)
        /\ ~(req.input_token = QuoteToken /\ req.output_token = QuoteToken)

\* C5 amended: with distinct base and quote tokens, a request whose input
\* and output tokens both match the same role is rejected with
\* UnsupportedTokenPair; with an ambiguous pair (base = quote) the request
\* whose input and output are both that token is resolved AsIs by
\* precedence (never Inverted), and every other request is rejected.
C5_SameRoleRejectedUnlessAmbiguous ==
    [][ResolvesTokens =>
        LET input_token  == RequestedInput(req.body)
            output_token == RequestedOutput(req.body)
            same_role    == \/ input_token = BaseToken /\ output_token = BaseToken
                            \/ input_token = QuoteToken /\ output_token = QuoteToken
        IN  /\ (BaseToken # QuoteToken /\ same_role)
                    => RejectedPair(req', input_token, output_token)
            /\ (BaseToken = QuoteToken) =>
                    IF input_token = BaseToken /\ output_token = BaseToken
                    THEN req'.pc = "fetch" /\ req'.direction = "AsIs"
                    ELSE RejectedPair(req', input_token, output_token)]_vars

\* an ambiguous pair, and the request for that token on both sides resolved
C5_Witness ==
    /\ BaseToken = QuoteToken
    /\ req.pc = "fetch"
    /\ req.direction = "AsIs"
    /\ req.input_token = BaseToken /\ req.output_token = BaseToken

\* the EIP-191 personal-message digest of a 32-byte message:
\* keccak256("\x19Ethereum Signed Message:\n32" ++ message)
eip191_hash_message(message) ==
    keccak256(<<25, 69, 116, 104, 101, 114, 101, 117, 109, 32, 83, 105, 103,
                110, 101, 100, 32, 77, 101, 115, 115, 97, 103, 101, 58, 10,
                51, 50>> \o message)

\* ecrecover: the address a signature recovers to against a digest
Recover(signature, digest) ==
    IF digest = signature.prehash THEN AddressOf(signature.key)
    ELSE "0x0000000000000000000000000000000000000000"

\* C2: sign_context signs the EIP-191 personal-message digest of
\* keccak256(packed context), not the bare Keccak-256 digest, so that the
\* signature recovers to the signer's address under personal-message
\* verification.
C2_SignsPersonalMessageDigest ==
    \A i \in 1..Len(sign_calls) :
        LET call   == sign_calls[i]
            digest == keccak256(Flatten(call.context))
        IN  /\ call.result.signature.prehash = eip191_hash_message(digest)
            /\ call.result.signature.prehash # digest
            /\ Recover(call.result.signature, eip191_hash_message(digest))
                    = AddressOf(signer.inner)

\* the plain bytes a signature was made over: what follows the last hash tag
SignedBytes(signature) ==
    LET h    == signature.prehash
        tags == {i \in 1..Len(h) : h[i] = 256}
    IN  SubSeq(h, (CHOOSE i \in tags : \A j \in tags : j <= i) + 1, Len(h))

\* C3: in every successful response the signature is over exactly
\* context[0] ++ context[1] of the context returned (64 bytes, the price
\* word then the expiry word, nothing between or before), made with the
\* key loaded at startup, and signer is that key's address.
C3_SignatureOverReturnedContext ==
    (req.response.status = 200) =>
        LET r == req.response
        IN  /\ Len(r.context) = 2
            /\ SignedBytes(r.signature) = r.context[1] \o r.context[2]
            /\ Len(SignedBytes(r.signature)) = 64
            /\ B256ToFloat(r.context[2]).mag = ZeroExtend(req.expiry, 28)
            /\ B256ToFloat(r.context[2]).exp = 0
            /\ r.signature.key = state.signer.inner
            /\ r.signer = AddressOf(state.signer.inner)

\* a successful response whose two context words differ
C3_Witness ==
    /\ req.pc = "done"
    /\ req.response.status = 200
    /\ req.response.context[1] # req.response.context[2]

\* build_context returned a context for direction AsIs
BuiltAsIs == req.context # <<>> /\ req.direction = "AsIs"

\* C4 as stated: for AsIs the (coefficient, exponent) pair stored in
\* context[0] is the feed's (price, expo) pair, untouched.
C4_PureRepack ==
    BuiltAsIs =>
        LET f == B256ToFloat(req.context[1])
        IN  /\ f.exp = req.price_data.expo
            /\ f.mag = NatToBytes(Abs(req.price_data.price), 28)
            /\ f.neg = (req.price_data.price < 0)

\* C4 amended: for AsIs the value coefficient * 10^exponent stored in
\* context[0] equals the feed's price * 10^expo exactly; the stored pair
\* is the one parsed back from the decimal string, not the feed's pair.
C4_ValuePreserved ==
    BuiltAsIs =>
        LET f    == B256ToFloat(req.context[1])
            expo == req.price_data.expo
            m    == IF f.exp < expo THEN f.exp ELSE expo
        IN  /\ f.neg = (req.price_data.price < 0)
            /\ BytesToNat(f.mag) * Pow10(f.exp - m)
                    = Abs(req.price_data.price) * Pow10(expo - m)

\* a nonzero price stored under another exponent than the feed's
C4_Witness ==
    /\ BuiltAsIs
    /\ req.price_data.price # 0
    /\ B256ToFloat(req.context[1]).exp # req.price_data.expo

\* the request is over: a response was sent or the handler panicked
Ended == req.pc \in {"done", "panicked"}

Did(step) == \E i \in 1..Len(req.steps) : req.steps[i] = step

\* the status and code the failure classes are to be answered with
ExpectedError(err) ==
    CASE err.kind = "InvalidBody"          -> <<400, "invalid_body">>
      [] err.kind = "InvalidIndex"         -> <<400, "invalid_index">>
      [] err.kind = "UnsupportedTokenPair" -> <<400, "unsupported_token_pair">>
      [] OTHER                             -> <<500, "internal_error">>

\* C6: every failed request ends with exactly one error response whose
\* code is determined by the failure class (invalid_body, invalid_index,
\* unsupported_token_pair with 400; internal_error with 500), and no
\* failure yields a success response.
C6_EveryFailureOneErrorResponse ==
    Ended =>
        /\ (req.err.kind # "None") =>
                /\ req.responses = 1
                /\ req.response.status # 200
                /\ <<req.response.status, req.response.error>>
                        = ExpectedError(req.err)
        /\ (req.err.kind = "None") =>
                req.responses = 1 /\ req.response.status = 200

\* C7: the clock is read exactly once per request and the value encoded
\* in context[1] is exactly now + expiry_seconds, without wrap-around.
C7_ExpiryIsNowPlusWindow ==
    (req.context # <<>>) =>
        /\ req.clock_reads = 1
        /\ B256ToFloat(req.context[2]).exp = 0
        /\ ~B256ToFloat(req.context[2]).neg
        /\ B256ToFloat(req.context[2]).mag
                = AddBytes(ZeroExtend(req.now, 28),
                           ZeroExtend(state.expiry_seconds, 28)).sum

\* build_context was called with a zero price to invert
InvertsZero ==
    /\ Did("build")
    /\ req.price_data.price = 0
    /\ req.direction = "Inverted"

StepOrder == <<"decode", "input_index", "output_index", "direction",
               "fetch", "clock", "build", "sign">>

\* C10: the steps of a request happen in the order decode, input index,
\* output index, direction, fetch, clock, build, sign; the feed is called
\* at most once per request, and neither called nor anything signed for a
\* request rejected with invalid_body, invalid_index or
\* unsupported_token_pair; a failed fetch ends the request, with no retry.
C10_FixedOrderOneFetch ==
    /\ Len(req.steps) <= Len(StepOrder)
    /\ req.steps = SubSeq(StepOrder, 1, Len(req.steps))
    /\ req.feed_calls = (IF Did("fetch") THEN 1 ELSE 0)
    /\ (req.response.status = 400) =>
            /\ req.response.error \in {"invalid_body", "invalid_index",
                                       "unsupported_token_pair"}
            /\ req.feed_calls = 0
            /\ ~Did("sign")
    /\ (req.pc \in {"fetch", "sign"}) => req.responses = 0
    /\ (req.err.kind = "Internal" /\ req.err.source = "fetch_price") =>
            /\ req.pc = "done"
            /\ req.feed_calls = 1
            /\ req.steps = SubSeq(StepOrder, 1, 5)

\* a request that went through all eight steps to a signed response
C10_Witness ==
    /\ req.pc = "done"
    /\ req.response.status = 200
    /\ req.steps = StepOrder
    /\ req.feed_calls = 1

\* the context a task's own deliveries give: its own price, and its own
\* clock reading plus the configured window (modulo 2^64)
OwnContext(r) ==
    build_context(delivered[r].price_data.price,
                  delivered[r].price_data.expo,
                  AddBytes(delivered[r].clock.secs, state.expiry_seconds).sum,
                  reqs[r].direction)

\* task r sends its signed response in this step
Responds(r) ==
    reqs[r].response.status # 200 /\ reqs'[r].response.status = 200

\* the response task r sends carries, and is signed over, the context of
\* its own deliveries, with the key loaded at startup
OwnDataOnly(r) ==
    LET own == OwnContext(r)
    IN  /\ delivered[r].present /\ delivered[r].clock.ok
        /\ delivered'[r] = delivered[r]
        /\ own.ok
        /\ reqs'[r].response.context = own.context
        /\ SignedBytes(reqs'[r].response.signature) = Flatten(own.context)
        /\ reqs'[r].response.signature.key = state.signer.inner

\* C11: under any interleaving of concurrently handled requests the shared
\* state (signing key, feed id, expiry window, token pair) is never
\* modified after startup, and the price and expiry embedded and signed in
\* a request's response come only from that request's own price fetch and
\* clock read, never from another request's.
C11_RequestsIndependent ==
    [][/\ state' = state
       /\ \A r \in Requests : Responds(r) => OwnDataOnly(r)]_vars

\* two requests answered at the same time with different prices and
\* different expiries, the second one fetched while the first was waiting
\* to be signed
C11_Witness ==
    /\ NumRequests >= 2
    /\ reqs[1].response.status = 200
    /\ reqs[2].response.status = 200
    /\ reqs[1].direction = reqs[2].direction
    /\ delivered[1].price_data # delivered[2].price_data
    /\ delivered[1].clock # delivered[2].clock
    /\ reqs[1].response.context[1] # reqs[2].response.context[1]
    /\ reqs[1].response.context[2] # reqs[2].response.context[2]

\* a decimal string without its leading '-'
Unsigned(s) == IF s # <<>> /\ s[1] = "-" THEN Tail(s) ELSE s

\* the digits before the '.', and what follows them
IntegerDigits(s) == SubSeq(Unsigned(s), 1, LeadingDigits(Unsigned(s)))
AfterInteger(s) ==
    SubSeq(Unsigned(s), LeadingDigits(Unsigned(s)) + 1, Len(Unsigned(s)))

\* the digits after the '.', none when there is no '.'
FractionDigits(s) ==
    IF AfterInteger(s) = <<>> THEN <<>> ELSE Tail(AfterInteger(s))

\* optional leading '-', digits, optional '.' and digits
IsPlainDecimal(s) ==
    /\ IntegerDigits(s) # <<>>
    /\ \/ AfterInteger(s) = <<>>
       \/ /\ AfterInteger(s)[1] = "."
          /\ FractionDigits(s) # <<>>
          /\ LeadingDigits(FractionDigits(s)) = Len(FractionDigits(s))

RECURSIVE TimesPow10(_, _)
\* b * 10^k on a byte string
TimesPow10(b, k) ==
    IF k = 0 THEN b ELSE TimesPow10(MulAddSmall(b, 10, 0), k - 1)

\* the decimal string s stands for exactly price * 10^expo
IsExactly(s, price, expo) ==
    LET frac == Len(FractionDigits(s))
        n    == DigitsToBytes(IntegerDigits(s) \o FractionDigits(s), 28)
        m    == IF -frac < expo THEN -frac ELSE expo
    IN  /\ (s[1] = "-") = (price < 0)
        /\ TimesPow10(n, -frac - m)
                = TimesPow10(NatToBytes(Abs(price), 28), expo - m)

\* C12: for every signed 64-bit price and signed 32-bit expo,
\* format_pyth_price returns a plain decimal string (optional leading '-',
\* digits, optional '.' and digits) whose exact numeric value is
\* price * 10^expo: for expo >= 0 the integer digits followed by expo
\* zeros; for expo < 0 exactly |expo| fractional digits, with a leading
\* "0." and zero padding when the price has at most |expo| digits.
C12_FormatsExactDecimal ==
    fmt.called =>
        /\ fmt.result.returned
        /\ IsPlainDecimal(fmt.result.s)
        /\ IsExactly(fmt.result.s, fmt.price, fmt.expo)
        /\ (fmt.expo >= 0) =>
                /\ FractionDigits(fmt.result.s) = <<>>
                /\ AfterInteger(fmt.result.s) = <<>>
                /\ LET d == IntegerDigits(fmt.result.s)
                   IN  /\ Len(d) > fmt.expo
                       /\ SubSeq(d, Len(d) - fmt.expo + 1, Len(d))
                            = Repeat("0", fmt.expo)
                       /\ DigitsToBytes(SubSeq(d, 1, Len(d) - fmt.expo), 28)
                            = NatToBytes(Abs(fmt.price), 28)
        /\ (fmt.expo < 0) =>
                /\ Len(FractionDigits(fmt.result.s)) = -fmt.expo
                /\ (Abs(fmt.price) < Pow10(-fmt.expo)) =>
                        IntegerDigits(fmt.result.s) = <<"0">>

\* what C12 says, for the exponents above i32::MIN
FormatsExactDecimalAboveMin ==
    (fmt.called /\ fmt.expo # I32Min) => C12_FormatsExactDecimal

\* a short negative price that was padded behind "-0."
PaddedCall ==
    /\ fmt.called /\ fmt.result.returned
    /\ fmt.price = -31 /\ fmt.expo = -5
    /\ fmt.result.s = <<"-", "0", ".", "0", "0", "0", "3", "1">>

============================================================================
